---- MODULE Spec2Model ----
(***************************************************************************)
(* egui_speedy2d: the bridge between the speedy2d window callbacks and an  *)
(* egui context (src/src/lib.rs).  WindowWrapper keeps the pending egui    *)
(* input, the texture table and the deferred-free list; every host         *)
(* callback is one atomic action (the host is single threaded, callbacks   *)
(* never overlap).  The calls a callback makes on its collaborators (the   *)
(* application handler, the egui context, the speedy2d Graphics2D) are     *)
(* recorded, in order, in the variable calls.                               *)
(***************************************************************************)
EXTENDS Integers, Sequences, FiniteSets, TLC

(* ------------------------------------------------------------------ *)
(* Bounds of the model                                                 *)
(* ------------------------------------------------------------------ *)
\* events pending in raw_input.events between two redraws
MaxPending == 2
\* the same in StampSpec, whose events vary more
MaxStamped == 1
\* textures the host creates in one run
MaxTextures == 3
\* vertex coordinates of the triangles of WindingSpec are 0..MaxCoord
MaxCoord == 2
\* the rounding of clip coordinates is checked on -MaxQuarter..MaxQuarter
\* quarters of a point
MaxQuarter == 12

(* ------------------------------------------------------------------ *)
(* Option<T>: None is the empty sequence, Some(x) the one-element one  *)
(* ------------------------------------------------------------------ *)
None == << >>
Some(x) == << x >>

Range(s) == { s[i] : i \in 1..Len(s) }

(* ------------------------------------------------------------------ *)
(* f32 on small integers: the value and the sign bit (the sign bit     *)
(* matters for zero: is_sign_positive tells +0.0 from -0.0)            *)
(* ------------------------------------------------------------------ *)
F32(n) == [v |-> n, neg |-> n < 0]

\* a - b, IEEE round-to-nearest: an exact zero result is +0.0 unless
\* a is -0.0 and b is +0.0
FSub(a, b) ==
  IF a.v - b.v # 0
    THEN [v |-> a.v - b.v, neg |-> a.v - b.v < 0]
    ELSE [v |-> 0, neg |-> a.v = 0 /\ a.neg /\ ~b.neg]

\* a * b: the sign bit of a product is the xor of the sign bits, for zero too
FMul(a, b) == [v |-> a.v * b.v, neg |-> a.neg # b.neg]

is_sign_positive(x) == ~x.neg

(* ------------------------------------------------------------------ *)
(* Type conversions (lib.rs 660-692)                                   *)
(* egui::Pos2 is a record [x, y]; speedy2d Vec2/UVec2/IVec2 a pair     *)
(* ------------------------------------------------------------------ *)
pos_from_uvec2(pos) == [x |-> pos[1], y |-> pos[2]]

vec2_from_egui(pos) == << pos.x, pos.y >>

pos2_from_speedy2d(pos) == [x |-> pos[1], y |-> pos[2]]

\* Color32 -> Color::from_int_rgba(r, g, b, a): the four components, each
\* n standing for the float n / 255
color_from_egui(color) == << color.r, color.g, color.b, color.a >>

\* f32::round of q/4 (half away from zero), clip coordinates are in quarters
RoundQuarters(q) ==
  IF q >= 0 THEN (2 * q + 4) \div 8 ELSE -((2 * (-q) + 4) \div 8)

\* a slip: as i32 without round(), which truncates toward zero
ivec2_from_egui_truncates(pos) ==
  << (IF pos.x >= 0 THEN pos.x \div 4 ELSE -((-pos.x) \div 4)),
     (IF pos.y >= 0 THEN pos.y \div 4 ELSE -((-pos.y) \div 4)) >>

ivec2_from_egui(pos) == << RoundQuarters(pos.x), RoundQuarters(pos.y) >>

rect_from_egui(rect) ==
  [top_left |-> ivec2_from_egui(rect.min), bottom_right |-> ivec2_from_egui(rect.max)]

\* egui::Rect::from_min_max(Default::default(), max)
RectFromMinMax(min, max) == [min |-> min, max |-> max]

Pos2Default == [x |-> 0, y |-> 0]

ModifiersDefault == [ctrl |-> FALSE, alt |-> FALSE, shift |-> FALSE, logo |-> FALSE]

\* a slip: command follows the logo key
modifiers_from_speedy2d_command_is_logo(modifiers) ==
  [alt |-> modifiers.alt, ctrl |-> modifiers.ctrl, shift |-> modifiers.shift,
   mac_cmd |-> FALSE, command |-> modifiers.logo]

modifiers_from_speedy2d(modifiers) ==
  [alt |-> modifiers.alt, ctrl |-> modifiers.ctrl, shift |-> modifiers.shift,
   mac_cmd |-> FALSE, command |-> modifiers.ctrl]

(* ------------------------------------------------------------------ *)
(* key_from_speedy2d (lib.rs 694-771)                                  *)
(* ------------------------------------------------------------------ *)
Letters ==
  {"A", "B", "C", "D", "E", "F", "G", "H", "I", "J", "K", "L", "M",
   "N", "O", "P", "Q", "R", "S", "T", "U", "V", "W", "X", "Y", "Z"}

FunctionKeys ==
  {"F1", "F2", "F3", "F4", "F5", "F6", "F7", "F8", "F9", "F10",
   "F11", "F12", "F13", "F14", "F15", "F16", "F17", "F18", "F19", "F20"}

\* arms Some(X) => Some(egui::Key::X)
SameNameKeys ==
  Letters \cup FunctionKeys \cup
  {"Escape", "Insert", "Home", "Delete", "End", "PageDown", "PageUp",
   "Backspace", "Space", "Tab"}

\* arms whose egui key has another name
RenamedKeys ==
  [Left |-> "ArrowLeft", Up |-> "ArrowUp", Right |-> "ArrowRight",
   Down |-> "ArrowDown", Return |-> "Enter",
   Numpad0 |-> "Num0", Numpad1 |-> "Num1", Numpad2 |-> "Num2",
   Numpad3 |-> "Num3", Numpad4 |-> "Num4", Numpad5 |-> "Num5",
   Numpad6 |-> "Num6", Numpad7 |-> "Num7", Numpad8 |-> "Num8",
   Numpad9 |-> "Num9"]

\* host key codes that fall in the arm Some(_) => None
UnmappedKeys ==
  {"Key0", "Key1", "Key9", "F21", "F24", "LControl", "LShift", "LAlt",
   "Numlock", "NumpadAdd", "Comma"}

VirtualKeyCode == SameNameKeys \cup DOMAIN RenamedKeys \cup UnmappedKeys

OptionVirtualKeyCode == {None} \cup { Some(k) : k \in VirtualKeyCode }

\* egui::Key: its variants, the punctuation keys left out
EguiKey ==
  {"ArrowDown", "ArrowLeft", "ArrowRight", "ArrowUp", "Escape", "Tab",
   "Backspace", "Enter", "Space", "Insert", "Delete", "Home", "End",
   "PageUp", "PageDown",
   "Num0", "Num1", "Num2", "Num3", "Num4", "Num5", "Num6", "Num7", "Num8",
   "Num9"} \cup Letters \cup FunctionKeys

key_from_speedy2d(virtual_key_code) ==
  IF virtual_key_code = None THEN None
  ELSE IF virtual_key_code[1] \in SameNameKeys THEN Some(virtual_key_code[1])
  ELSE IF virtual_key_code[1] \in DOMAIN RenamedKeys
    THEN Some(RenamedKeys[virtual_key_code[1]])
  ELSE None

\* the match of on_mouse_button_down / on_mouse_button_up
PointerButton(button) ==
  IF button = "Left" THEN Some("Primary")
  ELSE IF button = "Right" THEN Some("Secondary")
  ELSE IF button = "Middle" THEN Some("Middle")
  ELSE None

(* ------------------------------------------------------------------ *)
(* Winding correction: the body of the chunks_exact(3) loop            *)
(* (lib.rs 130-156).  vertices is the mesh's vertex buffer, idx one    *)
(* group of three indices (0-based, as in the mesh).                   *)
(* ------------------------------------------------------------------ *)
Swap12(t) == << t[1], t[3], t[2] >>

\* (p[1].x - p[0].x) * (p[2].y - p[0].y) - (p[1].y - p[0].y) * (p[2].x - p[0].x)
CrossProduct(p) ==
  FSub(FMul(FSub(p[2][1], p[1][1]), FSub(p[3][2], p[1][2])),
       FMul(FSub(p[2][2], p[1][2]), FSub(p[3][1], p[1][1])))

\* the test of line 140: swap when the sign bit of the cross product is clear
WindingSwapAlways(p) == TRUE

WindingSwap(p) == is_sign_positive(CrossProduct(p))

PositionsOf(v) ==
  << vec2_from_egui(v[1].pos), vec2_from_egui(v[2].pos), vec2_from_egui(v[3].pos) >>

\* a slip: p.swap(1, 2) without v.swap(1, 2)
TriangleCallOfSwapsPositionsOnly(v, handle) ==
  LET p == PositionsOf(v)
      ps == IF WindingSwap(p) THEN Swap12(p) ELSE p
  IN [op |-> "draw_triangle",
      p |-> ps,
      colors |-> << color_from_egui(v[1].color), color_from_egui(v[2].color),
                    color_from_egui(v[3].color) >>,
      uvs |-> << vec2_from_egui(v[1].uv), vec2_from_egui(v[2].uv),
                 vec2_from_egui(v[3].uv) >>,
      handle |-> handle]

\* the draw_triangle_image_tinted_three_color call of one index group:
\* v holds the three vertices the indices select
TriangleCallOf(v, handle) ==
  LET p == PositionsOf(v)
      swap == WindingSwap(p)
      vs == IF swap THEN Swap12(v) ELSE v
      ps == IF swap THEN Swap12(p) ELSE p
  IN [op |-> "draw_triangle",
      p |-> ps,
      colors |-> << color_from_egui(vs[1].color), color_from_egui(vs[2].color),
                    color_from_egui(vs[3].color) >>,
      uvs |-> << vec2_from_egui(vs[1].uv), vec2_from_egui(vs[2].uv),
                 vec2_from_egui(vs[3].uv) >>,
      handle |-> handle]

(* ------------------------------------------------------------------ *)
(* State                                                               *)
(* ------------------------------------------------------------------ *)
VARIABLES
  raw_input,            \* RawInput: [events, screen_rect, modifiers]
  egui_ctx,             \* the egui context: [pixels_per_point]
  id_and_textures,      \* HashMap<u64, (ImageHandle, RgbaImage)>
  to_free_textures,     \* Vec<u64>
  last_mouse_position,  \* Vec2
  current_modifiers,    \* ModifiersState
  panicked,             \* a callback panicked: the process is gone
  created,              \* images the host has created so far (names the handles)
  host,                 \* the host callback that ran last: [cb, args]
  calls,                \* the calls that callback made, in order
  last_free,            \* textures_delta.free of the last UI frame
  prev_free,            \* textures_delta.free of the UI frame before it
  seen,                 \* the arguments of the host's most recent callbacks
  forwarded,            \* the input-side fields when the handler was last called
  w_tri,                \* WindingSpec: the three vertices of a triangle
  w_out,                \* WindingSpec: the emitted draw call, or None
  w_again               \* WindingSpec: the call of the emitted order, or None

bridge == << raw_input, egui_ctx, id_and_textures, to_free_textures,
             last_mouse_position, current_modifiers, panicked, created >>

frames == << last_free, prev_free >>

winding == << w_tri, w_out, w_again >>

vars == << raw_input, egui_ctx, id_and_textures, to_free_textures,
           last_mouse_position, current_modifiers, panicked, created,
           host, calls, last_free, prev_free, seen, forwarded,
           w_tri, w_out, w_again >>

(* ------------------------------------------------------------------ *)
(* egui events                                                         *)
(* ------------------------------------------------------------------ *)
EventPointerMoved(pos) == [type |-> "PointerMoved", pos |-> pos]

EventPointerButton(pos, button, pressed, modifiers) ==
  [type |-> "PointerButton", pos |-> pos, button |-> button,
   pressed |-> pressed, modifiers |-> modifiers]

EventKey(key, pressed, modifiers) ==
  [type |-> "Key", key |-> key, pressed |-> pressed, repeat |-> FALSE,
   modifiers |-> modifiers, physical_key |-> None]

EventText(text) == [type |-> "Text", text |-> text]

\* a slip: insert(0, ev) for push(ev)
PushFront(events, ev) == << ev >> \o events

\* Vec::push
Push(events, ev) == Append(events, ev)

\* the fields the input callbacks write, as they are at a call of the handler
AtForward == << raw_input, last_mouse_position, current_modifiers >>

\* self.handler.on_xxx(helper, args.., &self.egui_ctx)
Forward(cb, args) == [op |-> "handler", cb |-> cb, args |-> args]

(* ------------------------------------------------------------------ *)
(* Construction (lib.rs 73-83)                                         *)
(* ------------------------------------------------------------------ *)
RawInputDefault ==
  [events |-> << >>, screen_rect |-> None,
   modifiers |-> modifiers_from_speedy2d(ModifiersDefault)]

InitBridge ==
  /\ raw_input = RawInputDefault
  /\ egui_ctx = [pixels_per_point |-> 1]
  /\ id_and_textures = << >>
  /\ to_free_textures = << >>
  /\ last_mouse_position = << 0, 0 >>
  /\ current_modifiers = ModifiersDefault
  /\ panicked = FALSE
  /\ created = 0
  /\ host = [cb |-> "new", args |-> << >>]
  /\ calls = << >>
  /\ last_free = << >>
  /\ prev_free = << >>
  /\ seen = [move |-> None, modifiers |-> None, resize |-> None, scale |-> None]
  /\ forwarded = None

Init ==
  /\ InitBridge
  /\ w_tri = None
  /\ w_out = None
  /\ w_again = None

(* ------------------------------------------------------------------ *)
(* Host callbacks other than on_draw (lib.rs 411-481, 510-657)         *)
(* ------------------------------------------------------------------ *)
\* a callback that only forwards
ForwardOnly(cb, args) ==
  /\ ~panicked
  /\ host' = [cb |-> cb, args |-> args]
  /\ calls' = << Forward(cb, args) >>
  /\ UNCHANGED << bridge, frames, seen, winding >>
  /\ forwarded' = AtForward'

on_start(info) == ForwardOnly("on_start", << info >>)

on_user_event(user_event) == ForwardOnly("on_user_event", << user_event >>)

on_mouse_grab_status_changed(mouse_grabbed) ==
  ForwardOnly("on_mouse_grab_status_changed", << mouse_grabbed >>)

on_fullscreen_status_changed(fullscreen) ==
  ForwardOnly("on_fullscreen_status_changed", << fullscreen >>)

\* a slip: the scroll distance is also queued as an event for the library
on_mouse_wheel_scroll_queues_event(distance) ==
  /\ ~panicked
  /\ raw_input' = [raw_input EXCEPT !.events =
        Push(@, [type |-> "Scroll", delta |-> distance])]
  /\ host' = [cb |-> "on_mouse_wheel_scroll", args |-> << distance >>]
  /\ calls' = << Forward("on_mouse_wheel_scroll", << distance >>) >>
  /\ UNCHANGED << egui_ctx, id_and_textures, to_free_textures, last_mouse_position,
                  current_modifiers, panicked, created, frames, seen, winding >>
  /\ forwarded' = AtForward'

on_mouse_wheel_scroll(distance) ==
  ForwardOnly("on_mouse_wheel_scroll", << distance >>)

\* a slip: the rectangle is set only while none is stored
on_resize_keeps_first(size_pixels) ==
  /\ ~panicked
  /\ raw_input' = [raw_input EXCEPT !.screen_rect =
        IF raw_input.screen_rect = None
          THEN Some(RectFromMinMax(Pos2Default, pos_from_uvec2(size_pixels)))
          ELSE raw_input.screen_rect]
  /\ seen' = [seen EXCEPT !.resize = Some(size_pixels)]
  /\ host' = [cb |-> "on_resize", args |-> << size_pixels >>]
  /\ calls' = << Forward("on_resize", << size_pixels >>) >>
  /\ UNCHANGED << egui_ctx, id_and_textures, to_free_textures, last_mouse_position,
                  current_modifiers, panicked, created, frames, winding >>
  /\ forwarded' = AtForward'

on_resize(size_pixels) ==
  /\ ~panicked
  /\ raw_input' = [raw_input EXCEPT !.screen_rect =
        Some(RectFromMinMax(Pos2Default, pos_from_uvec2(size_pixels)))]
  /\ seen' = [seen EXCEPT !.resize = Some(size_pixels)]
  /\ host' = [cb |-> "on_resize", args |-> << size_pixels >>]
  /\ calls' = << Forward("on_resize", << size_pixels >>) >>
  /\ UNCHANGED << egui_ctx, id_and_textures, to_free_textures, last_mouse_position,
                  current_modifiers, panicked, created, frames, winding >>
  /\ forwarded' = AtForward'

\* scale_factor as f32: the scales of the model are exact in f32
F32FromF64(x) == x

\* a slip: the scale is forwarded to the handler but never set on the context
on_scale_factor_changed_forwards_only(scale_factor) ==
  ForwardOnly("on_scale_factor_changed", << scale_factor >>)

on_scale_factor_changed(scale_factor) ==
  /\ ~panicked
  /\ egui_ctx' = [egui_ctx EXCEPT !.pixels_per_point = F32FromF64(scale_factor)]
  /\ seen' = [seen EXCEPT !.scale = Some(scale_factor)]
  /\ host' = [cb |-> "on_scale_factor_changed", args |-> << scale_factor >>]
  /\ calls' = << [op |-> "set_pixels_per_point",
                  pixels_per_point |-> F32FromF64(scale_factor)],
                 Forward("on_scale_factor_changed", << scale_factor >>) >>
  /\ UNCHANGED << raw_input, id_and_textures, to_free_textures, last_mouse_position,
                  current_modifiers, panicked, created, frames, winding >>
  /\ forwarded' = AtForward'

\* a slip: the handler is called before the move is recorded
on_mouse_move_forwards_first(position) ==
  /\ ~panicked
  /\ last_mouse_position' = position
  /\ raw_input' = [raw_input EXCEPT !.events =
        Push(@, EventPointerMoved(pos2_from_speedy2d(position)))]
  /\ seen' = [seen EXCEPT !.move = Some(position)]
  /\ host' = [cb |-> "on_mouse_move", args |-> << position >>]
  /\ calls' = << Forward("on_mouse_move", << position >>) >>
  /\ UNCHANGED << egui_ctx, id_and_textures, to_free_textures, current_modifiers,
                  panicked, created, frames, winding >>
  /\ forwarded' = AtForward

on_mouse_move(position) ==
  /\ ~panicked
  /\ last_mouse_position' = position
  /\ raw_input' = [raw_input EXCEPT !.events =
        Push(@, EventPointerMoved(pos2_from_speedy2d(position)))]
  /\ seen' = [seen EXCEPT !.move = Some(position)]
  /\ host' = [cb |-> "on_mouse_move", args |-> << position >>]
  /\ calls' = << Forward("on_mouse_move", << position >>) >>
  /\ UNCHANGED << egui_ctx, id_and_textures, to_free_textures, current_modifiers,
                  panicked, created, frames, winding >>
  /\ forwarded' = AtForward'

\* a slip: the press is stamped with the position (0, 0) of construction
MouseButtonCallbackInitialPosition(cb, button, pressed) ==
  /\ ~panicked
  /\ IF PointerButton(button) # None
       THEN raw_input' = [raw_input EXCEPT !.events =
              Push(@, EventPointerButton(pos2_from_speedy2d(<< 0, 0 >>),
                                         PointerButton(button)[1], pressed,
                                         modifiers_from_speedy2d(current_modifiers)))]
       ELSE UNCHANGED raw_input
  /\ host' = [cb |-> cb, args |-> << button >>]
  /\ calls' = << Forward(cb, << button >>) >>
  /\ UNCHANGED << egui_ctx, id_and_textures, to_free_textures, last_mouse_position,
                  current_modifiers, panicked, created, frames, seen, winding >>
  /\ forwarded' = AtForward'

\* on_mouse_button_down (pressed) and on_mouse_button_up (not pressed)
MouseButtonCallback(cb, button, pressed) ==
  /\ ~panicked
  /\ IF PointerButton(button) # None
       THEN raw_input' = [raw_input EXCEPT !.events =
              Push(@, EventPointerButton(pos2_from_speedy2d(last_mouse_position),
                                         PointerButton(button)[1], pressed,
                                         modifiers_from_speedy2d(current_modifiers)))]
       ELSE UNCHANGED raw_input
  /\ host' = [cb |-> cb, args |-> << button >>]
  /\ calls' = << Forward(cb, << button >>) >>
  /\ UNCHANGED << egui_ctx, id_and_textures, to_free_textures, last_mouse_position,
                  current_modifiers, panicked, created, frames, seen, winding >>
  /\ forwarded' = AtForward'

on_mouse_button_down(button) ==
  MouseButtonCallback("on_mouse_button_down", button, TRUE)

on_mouse_button_up(button) ==
  MouseButtonCallback("on_mouse_button_up", button, FALSE)

\* a slip: key-up reported as a press
KeyCallbackAlwaysPressed(cb, virtual_key_code, scancode, pressed) ==
  /\ ~panicked
  /\ IF key_from_speedy2d(virtual_key_code) # None
       THEN raw_input' = [raw_input EXCEPT !.events =
              Push(@, EventKey(key_from_speedy2d(virtual_key_code)[1], TRUE,
                               modifiers_from_speedy2d(current_modifiers)))]
       ELSE UNCHANGED raw_input
  /\ host' = [cb |-> cb, args |-> << virtual_key_code, scancode >>]
  /\ calls' = << Forward(cb, << virtual_key_code, scancode >>) >>
  /\ UNCHANGED << egui_ctx, id_and_textures, to_free_textures, last_mouse_position,
                  current_modifiers, panicked, created, frames, seen, winding >>
  /\ forwarded' = AtForward'

\* on_key_down (pressed) and on_key_up (not pressed)
KeyCallback(cb, virtual_key_code, scancode, pressed) ==
  /\ ~panicked
  /\ IF key_from_speedy2d(virtual_key_code) # None
       THEN raw_input' = [raw_input EXCEPT !.events =
              Push(@, EventKey(key_from_speedy2d(virtual_key_code)[1], pressed,
                               modifiers_from_speedy2d(current_modifiers)))]
       ELSE UNCHANGED raw_input
  /\ host' = [cb |-> cb, args |-> << virtual_key_code, scancode >>]
  /\ calls' = << Forward(cb, << virtual_key_code, scancode >>) >>
  /\ UNCHANGED << egui_ctx, id_and_textures, to_free_textures, last_mouse_position,
                  current_modifiers, panicked, created, frames, seen, winding >>
  /\ forwarded' = AtForward'

on_key_down(virtual_key_code, scancode) ==
  KeyCallback("on_key_down", virtual_key_code, scancode, TRUE)

on_key_up(virtual_key_code, scancode) ==
  KeyCallback("on_key_up", virtual_key_code, scancode, FALSE)

\* unicode_codepoint.to_string(): the one-character string
CharToString(c) == << c >>

on_keyboard_char(unicode_codepoint) ==
  /\ ~panicked
  /\ raw_input' = [raw_input EXCEPT !.events =
        Push(@, EventText(CharToString(unicode_codepoint)))]
  /\ host' = [cb |-> "on_keyboard_char", args |-> << unicode_codepoint >>]
  /\ calls' = << Forward("on_keyboard_char", << unicode_codepoint >>) >>
  /\ UNCHANGED << egui_ctx, id_and_textures, to_free_textures, last_mouse_position,
                  current_modifiers, panicked, created, frames, seen, winding >>
  /\ forwarded' = AtForward'

on_keyboard_modifiers_changed(state) ==
  /\ ~panicked
  /\ current_modifiers' = state
  /\ raw_input' = [raw_input EXCEPT !.modifiers = modifiers_from_speedy2d(state)]
  /\ seen' = [seen EXCEPT !.modifiers = Some(state)]
  /\ host' = [cb |-> "on_keyboard_modifiers_changed", args |-> << state >>]
  /\ calls' = << Forward("on_keyboard_modifiers_changed", << state >>) >>
  /\ UNCHANGED << egui_ctx, id_and_textures, to_free_textures, last_mouse_position,
                  panicked, created, frames, winding >>
  /\ forwarded' = AtForward'

(* ------------------------------------------------------------------ *)
(* The texture table (lib.rs 168-203)                                  *)
(* ------------------------------------------------------------------ *)
Managed(id) == [kind |-> "Managed", id |-> id]

User(id) == [kind |-> "User", id |-> id]

\* HashMap::remove of every id of a set, HashMap::insert
Remove(table, ids) == [k \in DOMAIN table \ ids |-> table[k]]

Insert(table, id, value) ==
  [k \in DOMAIN table \cup {id} |-> IF k = id THEN value ELSE table[k]]

\* a slip: the list is drained but the ids stay in the table
free_textures_nothing(table, to_free) ==
  [table |-> table,
   calls |-> [i \in 1..Len(to_free) |->
                [op |-> "remove", id |-> to_free[i], found |-> FALSE]]]

\* free_textures: [table, calls]; one HashMap::remove per drained id, which
\* finds an entry or does nothing
free_textures(table, to_free) ==
  [table |-> Remove(table, Range(to_free)),
   calls |-> [i \in 1..Len(to_free) |->
                [op |-> "remove", id |-> to_free[i],
                 found |-> to_free[i] \in DOMAIN table
                           /\ \A j \in 1..(i - 1) : to_free[j] # to_free[i]]]]

\* a slip: the ids of user textures are recorded too
ManagedIdsAndUserIds(free) == [i \in 1..Len(free) |-> free[i].id]

\* the filter_map of lines 98-106: the managed ids of the free list, in order
ManagedIds(free) ==
  LET m == SelectSeq(free, LAMBDA t : t.kind = "Managed")
  IN [i \in 1..Len(m) |-> m[i].id]

\* RgbaImage::from: the size and the RGBA bytes (4 per pixel; their number)
RgbaImageFrom(image) ==
  [size |-> image.size, pixels |-> 4 * image.size[1] * image.size[2]]

\* the match on image_delta.options
SmoothingMode(options) ==
  IF options = "NEAREST" THEN "NearestNeighbor"
  ELSE IF options = "LINEAR" THEN "Linear"
  ELSE "Linear"

\* set_textures from entry i on: st is [table, calls, created, tried, result].
\* created counts the images the host has made; fail is the number, among
\* this call's create calls, of the one the host fails (0: none fails).
RECURSIVE SetTexturesFrom(_, _, _, _)
SetTexturesFrom(i, set, st, fail) ==
  IF i > Len(set) THEN st
  ELSE
    LET id == set[i].id
        delta == set[i].delta
        image == RgbaImageFrom(delta.image)
        failed == (st.tried + 1 = fail)
        handle == st.created + 1
        call == [op |-> "create_image", data_type |-> "RGBA",
                 smoothing |-> SmoothingMode(delta.options),
                 size |-> image.size, pixels |-> image.pixels,
                 id |-> id.id,
                 result |-> IF failed THEN None ELSE Some(handle)]
    IN IF id.kind = "User" THEN SetTexturesFrom(i + 1, set, st, fail)
       ELSE IF delta.pos # None
         THEN [st EXCEPT !.calls = Append(@, [op |-> "panic", why |-> "todo"]),
                         !.result = "panic"]
       ELSE IF failed
         THEN [st EXCEPT !.calls = Append(@, call), !.tried = @ + 1,
                         !.result = "Err"]
       ELSE SetTexturesFrom(i + 1, set,
              [st EXCEPT !.calls = Append(@, call), !.tried = @ + 1,
                         !.created = handle,
                         !.table = Insert(@, id.id,
                                          [handle |-> handle, image |-> image])],
              fail)

\* a slip: an id the delta sets twice is created once, from its first entry
set_textures_once_per_id(table, textures_delta, n, fail) ==
  LET set == textures_delta.set
      first == { k \in DOMAIN set : \A j \in 1..(k - 1) : set[j].id # set[k].id }
      RECURSIVE Keep(_)
      Keep(k) == IF k > Len(set) THEN << >>
                 ELSE (IF k \in first THEN << set[k] >> ELSE << >>) \o Keep(k + 1)
  IN SetTexturesFrom(1, Keep(1),
                     [table |-> table, calls |-> << >>, created |-> n, tried |-> 0,
                      result |-> "Ok"],
                     fail)

\* a slip: partial updates are skipped
set_textures_skips_partial(table, textures_delta, n, fail) ==
  SetTexturesFrom(1, SelectSeq(textures_delta.set, LAMBDA e : e.delta.pos = None),
                  [table |-> table, calls |-> << >>, created |-> n, tried |-> 0,
                   result |-> "Ok"],
                  fail)

\* a slip: the error of a create call is dropped
set_textures_drops_error(table, textures_delta, n, fail) ==
  LET st == SetTexturesFrom(1, textures_delta.set,
                            [table |-> table, calls |-> << >>, created |-> n,
                             tried |-> 0, result |-> "Ok"],
                            fail)
  IN IF st.result = "Err" THEN [st EXCEPT !.result = "Ok"] ELSE st

set_textures(table, textures_delta, n, fail) ==
  SetTexturesFrom(1, textures_delta.set,
                  [table |-> table, calls |-> << >>, created |-> n, tried |-> 0,
                   result |-> "Ok"],
                  fail)

(* ------------------------------------------------------------------ *)
(* The draw loop (lib.rs 111-161)                                      *)
(* ------------------------------------------------------------------ *)
\* the three vertices of the c-th group of chunks_exact(3)
ChunkVertices(mesh, c) ==
  << mesh.vertices[mesh.indices[3 * c - 2] + 1],
     mesh.vertices[mesh.indices[3 * c - 1] + 1],
     mesh.vertices[mesh.indices[3 * c] + 1] >>

\* the draw call of the c-th group of a mesh whose texture is in the table,
\* with the texture id it resolved and the keys of the table at the call
DrawEntry(mesh, c, table) ==
  LET t == TriangleCallOf(ChunkVertices(mesh, c), table[mesh.texture_id.id].handle)
  IN [op |-> "draw_triangle", p |-> t.p, colors |-> t.colors, uvs |-> t.uvs,
      handle |-> t.handle, texture_id |-> mesh.texture_id.id,
      table |-> DOMAIN table]

\* the for loop from batch i on: st is [calls, result]
RECURSIVE DrawFrom(_, _, _, _)
DrawFrom(i, prims, table, st) ==
  IF i > Len(prims) THEN st
  ELSE
    LET clip == [op |-> "set_clip", rect |-> Some(rect_from_egui(prims[i].clip_rect))]
        prim == prims[i].primitive
        st1 == [st EXCEPT !.calls = Append(@, clip)]
    IN IF prim.kind # "Mesh"
         THEN [st1 EXCEPT !.calls = Append(@, [op |-> "panic", why |-> "todo"]),
                          !.result = "panic"]
       ELSE IF prim.texture_id.kind = "User"
         THEN DrawFrom(i + 1, prims, table, st1)
       ELSE IF prim.texture_id.id \notin DOMAIN table
         THEN [st1 EXCEPT !.calls = Append(@, [op |-> "panic", why |-> "unwrap"]),
                          !.result = "panic"]
       ELSE DrawFrom(i + 1, prims, table,
              [st1 EXCEPT !.calls =
                 @ \o [c \in 1..(Len(prim.indices) \div 3) |-> DrawEntry(prim, c, table)]])

\* a slip: the frame's own free list is applied before its draw calls
draw_frees_at_once(table, to_free, n, full_output, fail) ==
  LET freed == free_textures(table, to_free)
      tess == [op |-> "tessellate", pixels_per_point |-> full_output.pixels_per_point]
      next_free == ManagedIds(full_output.textures_delta.free)
      s == set_textures(freed.table, full_output.textures_delta, n, fail)
      now == Remove(s.table, Range(next_free))
      d == IF s.result = "Ok"
             THEN DrawFrom(1, full_output.shapes, now,
                           [calls |-> << >>, result |-> "Ok"])
             ELSE [calls |-> << >>, result |-> s.result]
  IN [table |-> now, to_free |-> << >>, created |-> s.created,
      calls |-> freed.calls \o << tess >> \o s.calls \o d.calls,
      result |-> d.result]

\* a slip: the frame's ids are added to a list that was read, not drained
draw_keeps_old_free_list(table, to_free, n, full_output, fail) ==
  LET freed == free_textures(table, to_free)
      tess == [op |-> "tessellate", pixels_per_point |-> full_output.pixels_per_point]
      next_free == ManagedIds(full_output.textures_delta.free)
      s == set_textures(freed.table, full_output.textures_delta, n, fail)
      d == IF s.result = "Ok"
             THEN DrawFrom(1, full_output.shapes, s.table,
                           [calls |-> << >>, result |-> "Ok"])
             ELSE [calls |-> << >>, result |-> s.result]
  IN [table |-> s.table, to_free |-> to_free \o next_free, created |-> s.created,
      calls |-> freed.calls \o << tess >> \o s.calls \o d.calls,
      result |-> d.result]

\* a slip: the ids of the previous frame are removed after the textures are set
draw_frees_after_set(table, to_free, n, full_output, fail) ==
  LET freed == free_textures(table, to_free)
      tess == [op |-> "tessellate", pixels_per_point |-> full_output.pixels_per_point]
      next_free == ManagedIds(full_output.textures_delta.free)
      s == set_textures(table, full_output.textures_delta, n, fail)
      now == Remove(s.table, Range(to_free))
      d == IF s.result = "Ok"
             THEN DrawFrom(1, full_output.shapes, now,
                           [calls |-> << >>, result |-> "Ok"])
             ELSE [calls |-> << >>, result |-> s.result]
  IN [table |-> now, to_free |-> next_free, created |-> s.created,
      calls |-> << tess >> \o s.calls \o freed.calls \o d.calls,
      result |-> d.result]

\* a slip: a batch whose texture is not in the table is skipped
draw_skips_missing(table, to_free, n, full_output, fail) ==
  LET freed == free_textures(table, to_free)
      tess == [op |-> "tessellate", pixels_per_point |-> full_output.pixels_per_point]
      next_free == ManagedIds(full_output.textures_delta.free)
      s == set_textures(freed.table, full_output.textures_delta, n, fail)
      there == SelectSeq(full_output.shapes,
                 LAMBDA b : ~(/\ b.primitive.kind = "Mesh"
                              /\ b.primitive.texture_id.kind = "Managed"
                              /\ b.primitive.texture_id.id \notin DOMAIN s.table))
      d == IF s.result = "Ok"
             THEN DrawFrom(1, there, s.table, [calls |-> << >>, result |-> "Ok"])
             ELSE [calls |-> << >>, result |-> s.result]
  IN [table |-> s.table, to_free |-> next_free, created |-> s.created,
      calls |-> freed.calls \o << tess >> \o s.calls \o d.calls,
      result |-> d.result]

\* a slip: the textures are set before the shapes are tessellated
draw_sets_before_tessellate(table, to_free, n, full_output, fail) ==
  LET freed == free_textures(table, to_free)
      tess == [op |-> "tessellate", pixels_per_point |-> full_output.pixels_per_point]
      next_free == ManagedIds(full_output.textures_delta.free)
      s == set_textures(freed.table, full_output.textures_delta, n, fail)
      d == IF s.result = "Ok"
             THEN DrawFrom(1, full_output.shapes, s.table,
                           [calls |-> << >>, result |-> "Ok"])
             ELSE [calls |-> << >>, result |-> s.result]
  IN [table |-> s.table, to_free |-> next_free, created |-> s.created,
      calls |-> freed.calls \o s.calls \o << tess >> \o d.calls,
      result |-> d.result]

\* WindowWrapper::draw: [table, to_free, created, calls, result]
draw(table, to_free, n, full_output, fail) ==
  LET freed == free_textures(table, to_free)
      tess == [op |-> "tessellate", pixels_per_point |-> full_output.pixels_per_point]
      next_free == ManagedIds(full_output.textures_delta.free)
      s == set_textures(freed.table, full_output.textures_delta, n, fail)
      d == IF s.result = "Ok"
             THEN DrawFrom(1, full_output.shapes, s.table,
                           [calls |-> << >>, result |-> "Ok"])
             ELSE [calls |-> << >>, result |-> s.result]
  IN [table |-> s.table, to_free |-> next_free, created |-> s.created,
      calls |-> freed.calls \o << tess >> \o s.calls \o d.calls,
      result |-> d.result]

(* ------------------------------------------------------------------ *)
(* on_draw (lib.rs 489-498)                                            *)
(* ------------------------------------------------------------------ *)
\* a slip: the events are cloned, not taken
TakeKeepsEvents(raw) == [raw EXCEPT !.screen_rect = None]

\* what RawInput::take leaves behind: no events, no screen rectangle
Take(raw) == [raw EXCEPT !.events = << >>, !.screen_rect = None]

\* a slip: the application draws after the frame is ended
on_draw_handler_after_frame(ui, fail) ==
  /\ ~panicked
  /\ LET input == raw_input
         full_output == [shapes |-> ui.prims,
                         pixels_per_point |-> egui_ctx.pixels_per_point,
                         textures_delta |-> [set |-> ui.set, free |-> ui.free]]
     IN \E d \in { draw(id_and_textures, to_free_textures, created, full_output, fail) } :
        /\ raw_input' = Take(raw_input)
        /\ id_and_textures' = d.table
        /\ to_free_textures' = d.to_free
        /\ created' = d.created
        /\ panicked' = (d.result # "Ok")
        /\ calls' = << [op |-> "begin_frame", input |-> input],
                       [op |-> "end_frame", output |-> full_output],
                       Forward("on_draw", << >>) >>
                    \o d.calls
                    \o (IF d.result = "Err"
                          THEN << [op |-> "panic", why |-> "unwrap"] >> ELSE << >>)
  /\ host' = [cb |-> "on_draw", args |-> << >>]
  /\ last_free' = ui.free
  /\ prev_free' = last_free
  /\ seen' = [seen EXCEPT !.resize = None]
  /\ UNCHANGED << egui_ctx, last_mouse_position, current_modifiers, winding >>
  /\ forwarded' = AtForward'

\* ui is what the application's UI produces this frame: [set, free, prims]
on_draw(ui, fail) ==
  /\ ~panicked
  /\ LET input == raw_input
         full_output == [shapes |-> ui.prims,
                         pixels_per_point |-> egui_ctx.pixels_per_point,
                         textures_delta |-> [set |-> ui.set, free |-> ui.free]]
     IN \E d \in { draw(id_and_textures, to_free_textures, created, full_output, fail) } :
        /\ raw_input' = Take(raw_input)
        /\ id_and_textures' = d.table
        /\ to_free_textures' = d.to_free
        /\ created' = d.created
        /\ panicked' = (d.result # "Ok")
        /\ calls' = << [op |-> "begin_frame", input |-> input],
                       Forward("on_draw", << >>),
                       [op |-> "end_frame", output |-> full_output] >>
                    \o d.calls
                    \o (IF d.result = "Err"
                          THEN << [op |-> "panic", why |-> "unwrap"] >> ELSE << >>)
  /\ host' = [cb |-> "on_draw", args |-> << >>]
  /\ last_free' = ui.free
  /\ prev_free' = last_free
  /\ seen' = [seen EXCEPT !.resize = None]
  /\ UNCHANGED << egui_ctx, last_mouse_position, current_modifiers, winding >>
  /\ forwarded' = AtForward'

(* ------------------------------------------------------------------ *)
(* The environment: what the host and the application's UI can supply  *)
(* ------------------------------------------------------------------ *)
CtrlOnly == [ctrl |-> TRUE, alt |-> FALSE, shift |-> FALSE, logo |-> FALSE]

\* vertices: position (f32 pair), uv and color; uv and color tell them apart
Vertex(i, x, y) ==
  [pos |-> [x |-> F32(x), y |-> F32(y)],
   uv |-> [x |-> i, y |-> 0],
   color |-> [r |-> i, g |-> 0, b |-> 0, a |-> 255]]

QuadVertices ==
  << Vertex(0, 0, 0), Vertex(1, 2, 0), Vertex(2, 2, 2), Vertex(3, 0, 2) >>

Mesh(indices, texture_id) ==
  [kind |-> "Mesh", indices |-> indices, vertices |-> QuadVertices,
   texture_id |-> texture_id]

\* clip rectangles, in quarters of a point
ClipA == [min |-> [x |-> 0, y |-> 0], max |-> [x |-> 2560, y |-> 960]]

ClipB == [min |-> [x |-> 5, y |-> 6], max |-> [x |-> 42, y |-> -3]]

Batch(clip_rect, primitive) == [clip_rect |-> clip_rect, primitive |-> primitive]

FontImage == [kind |-> "Font", size |-> << 2, 1 >>]

ColorImage == [kind |-> "Color", size |-> << 1, 1 >>]

SetEntry(id, pos, options, image) ==
  [id |-> id, delta |-> [pos |-> pos, options |-> options, image |-> image]]

EmptyOutput == [set |-> << >>, free |-> << >>, prims |-> << >>]

\* the textures_delta.set lists of TextureSpec
SetLists ==
  { << >>,
    << SetEntry(Managed(0), None, "LINEAR", FontImage) >>,
    << SetEntry(Managed(1), None, "NEAREST", ColorImage) >>,
    << SetEntry(User(0), None, "OTHER", ColorImage) >>,
    << SetEntry(Managed(1), Some(<< 0, 0 >>), "LINEAR", ColorImage) >>,
    << SetEntry(Managed(0), None, "LINEAR", FontImage),
       SetEntry(Managed(0), None, "OTHER", ColorImage) >> }

\* the textures_delta.free lists of TextureSpec
FreeLists ==
  { << >>, << Managed(0) >>, << Managed(1) >>, << User(0), Managed(0) >> }

\* what tessellation returns in TextureSpec
PrimLists ==
  { << >>,
    << Batch(ClipA, Mesh(<< 0, 1, 2 >>, Managed(0))) >>,
    << Batch(ClipB, Mesh(<< 0, 2, 1, 0, 2, 3, 1 >>, Managed(1))) >>,
    << Batch(ClipB, Mesh(<< 0, 1, 2 >>, User(0))),
       Batch(ClipA, Mesh(<< 0, 1 >>, Managed(0))) >>,
    << Batch(ClipA, Mesh(<< 0, 1, 2 >>, Managed(0))),
       Batch(ClipB, Mesh(<< 0, 2, 1 >>, Managed(1))) >>,
    << Batch(ClipA, [kind |-> "Callback"]) >> }

Outputs ==
  { [set |-> s, free |-> f, prims |-> p] :
      s \in SetLists, f \in FreeLists, p \in PrimLists }

(* ------------------------------------------------------------------ *)
(* Specifications                                                      *)
(* ------------------------------------------------------------------ *)
\* the host calls back, with arguments from the sets of e; at most
\* e.pending events wait in raw_input and MaxTextures images get created
NextWith(e) ==
  /\ \/ on_start("info")
     \/ on_user_event("wake")
     \/ \E size \in e.sizes : on_resize(size)
     \/ \E b \in BOOLEAN : on_mouse_grab_status_changed(b)
     \/ \E b \in BOOLEAN : on_fullscreen_status_changed(b)
     \/ \E scale \in e.scales : on_scale_factor_changed(scale)
     \/ \E ui \in e.outputs : \E fail \in 0..Len(ui.set) : on_draw(ui, fail)
     \/ \E position \in e.positions : on_mouse_move(position)
     \/ \E button \in e.buttons : on_mouse_button_down(button)
     \/ \E button \in e.buttons : on_mouse_button_up(button)
     \/ on_mouse_wheel_scroll("lines")
     \/ \E k \in e.keys : on_key_down(k, 30)
     \/ \E k \in e.keys : on_key_up(k, 30)
     \/ \E c \in e.chars : on_keyboard_char(c)
     \/ \E state \in e.modifiers : on_keyboard_modifiers_changed(state)
  /\ Len(raw_input'.events) <= e.pending
  /\ created' <= MaxTextures

\* Spec: every callback with plain arguments, two events waiting
PlainEnv ==
  [sizes |-> { << 640, 240 >>, << 800, 600 >> }, scales |-> { 2, 3 },
   outputs |-> { EmptyOutput },
   positions |-> { << 3, 4 >> }, buttons |-> { "Left", "Other" },
   keys |-> { None, Some("A"), Some("Key1") }, chars |-> { "a" },
   modifiers |-> { CtrlOnly }, pending |-> MaxPending]

Next == NextWith(PlainEnv)

Spec == Init /\ [][Next]_vars

\* StampSpec: the pointer and key callbacks with all their arguments
StampEnv ==
  [sizes |-> { << 640, 240 >> }, scales |-> { 2 },
   outputs |-> { EmptyOutput },
   positions |-> { << 3, 4 >>, << 7, 2 >> },
   buttons |-> { "Left", "Right", "Middle", "Other" },
   keys |-> { None, Some("A"), Some("Return"), Some("Key1") },
   chars |-> { "a" },
   modifiers |-> { ModifiersDefault, CtrlOnly },
   pending |-> MaxStamped]

StampNext == NextWith(StampEnv)

StampSpec == Init /\ [][StampNext]_vars

\* TextureSpec: every sequence of redraws, with every UI output and every
\* host failure.  No input callback reads or writes id_and_textures,
\* to_free_textures or created.
TextureNext ==
  /\ \E ui \in Outputs : \E fail \in 0..Len(ui.set) : on_draw(ui, fail)
  /\ created' <= MaxTextures

TextureSpec == Init /\ [][TextureNext]_vars

\* FrameSpec: input callbacks between redraws that set, draw and free textures
FrameOutputs ==
  { EmptyOutput,
    [set |-> << SetEntry(Managed(0), None, "LINEAR", FontImage) >>,
     free |-> << >>,
     prims |-> << Batch(ClipB, Mesh(<< 0, 1, 2 >>, User(0))),
                  Batch(ClipA, Mesh(<< 0, 1, 2, 3 >>, Managed(0))) >>],
    [set |-> << >>,
     free |-> << Managed(0) >>,
     prims |-> << Batch(ClipA, Mesh(<< 0, 1, 2 >>, Managed(0))) >>] }

FrameEnv ==
  [sizes |-> { << 640, 240 >> }, scales |-> { 2 },
   outputs |-> FrameOutputs,
   positions |-> { << 3, 4 >> }, buttons |-> { "Left", "Other" },
   keys |-> { Some("A"), Some("Key1") }, chars |-> { "a" },
   modifiers |-> { CtrlOnly }, pending |-> MaxStamped]

FrameNext == NextWith(FrameEnv)

FrameSpec == Init /\ [][FrameNext]_vars

\* WindingSpec: the winding correction on every triangle of a small grid
Coords == 0..MaxCoord

Triangles ==
  { << Vertex(0, x0, y0), Vertex(1, x1, y1), Vertex(2, x2, y2) >> :
      x0 \in Coords, y0 \in Coords, x1 \in Coords,
      y1 \in Coords, x2 \in Coords, y2 \in Coords }

\* the vertices a draw call was made of, in the order of the call
VerticesOfCall(t) ==
  [i \in 1..3 |->
     [pos |-> [x |-> t.p[i][1], y |-> t.p[i][2]],
      uv |-> [x |-> t.uvs[i][1], y |-> t.uvs[i][2]],
      color |-> [r |-> t.colors[i][1], g |-> t.colors[i][2],
                 b |-> t.colors[i][3], a |-> t.colors[i][4]]]]

WindingInit ==
  /\ InitBridge
  /\ w_tri \in { Some(t) : t \in Triangles }
  /\ w_out = None
  /\ w_again = None

Emit ==
  /\ w_out = None
  /\ w_out' = Some(TriangleCallOf(w_tri[1], 1))
  /\ UNCHANGED << bridge, host, calls, frames, seen, forwarded, w_tri, w_again >>

EmitAgain ==
  /\ w_out # None
  /\ w_again = None
  /\ w_again' = Some(TriangleCallOf(VerticesOfCall(w_out[1]), 1))
  /\ UNCHANGED << bridge, host, calls, frames, seen, forwarded, w_tri, w_out >>

WindingNext == Emit \/ EmitAgain

WindingSpec == WindingInit /\ [][WindingNext]_vars

(* ------------------------------------------------------------------ *)
(* Properties                                                          *)
(* ------------------------------------------------------------------ *)
\* the managed ids of a list of texture ids
ManagedOf(ids) == { t.id : t \in { u \in Range(ids) : u.kind = "Managed" } }

\* the managed ids a UI output replaces in full
FullySetBy(output) ==
  { e.id.id : e \in { x \in Range(output.textures_delta.set) :
                        x.id.kind = "Managed" /\ x.delta.pos = None } }

\* the entries of a log made by one operation
IndicesOf(log, op) == { i \in DOMAIN log : log[i].op = op }

\* the UI output of the redraw whose log is in calls
OutputOf(log) == log[CHOOSE i \in IndicesOf(log, "end_frame") : TRUE].output

\* C1: a managed id that frame N's output frees and that is in the table
\* when the frame's free set is recorded (it survived the deferred removal
\* at the start of the frame, or the frame itself sets it) is in the table
\* at every draw call of frame N, and a draw call of frame N that references
\* it gets the handle the table holds for it.
C1_FreedIdLiveDuringFrame ==
  [][host'.cb = "on_draw" =>
       LET out == OutputOf(calls')
           freed == ManagedOf(out.textures_delta.free)
           held == (DOMAIN id_and_textures \ Range(to_free_textures))
                     \cup FullySetBy(out)
       IN \A i \in IndicesOf(calls', "draw_triangle") :
            /\ (freed \cap held) \subseteq calls'[i].table
            /\ calls'[i].texture_id \in freed =>
                 /\ calls'[i].texture_id \in DOMAIN id_and_textures'
                 /\ calls'[i].handle = id_and_textures'[calls'[i].texture_id].handle
    ]_vars

\* a frame draws a triangle with the texture its own output frees
C1_Witness ==
  /\ host.cb = "on_draw"
  /\ ~panicked
  /\ \E i \in IndicesOf(calls, "draw_triangle") :
       /\ calls[i].texture_id \in ManagedOf(last_free)
       /\ calls[i].texture_id \in calls[i].table

\* C2 as stated: once frame N+1's redraw has completed, no managed id of
\* frame N's free set is in the table.
C2_FreedIdGoneAfterNextFrame ==
  (host.cb = "on_draw" /\ ~panicked) =>
    \A id \in ManagedOf(prev_free) : id \notin DOMAIN id_and_textures

\* C2: once frame N+1's redraw has completed, a managed id of frame N's free
\* set is not in the table, unless frame N+1's texture delta sets that id
\* again in full.
C2_FreedIdGoneUnlessSetAgain ==
  (host.cb = "on_draw" /\ ~panicked) =>
    \A id \in ManagedOf(prev_free) :
      id \notin DOMAIN id_and_textures \/ id \in FullySetBy(OutputOf(calls))

\* frame N+1 found an id of frame N's free set in the table and removed it
C2_Witness ==
  /\ host.cb = "on_draw"
  /\ ~panicked
  /\ \E i \in IndicesOf(calls, "remove") :
       /\ calls[i].found
       /\ calls[i].id \in ManagedOf(prev_free)
       /\ calls[i].id \notin DOMAIN id_and_textures

\* C3: a redraw hands the events pushed since the previous redraw to its
\* begin-frame, in the order they were pushed, begins exactly one frame, and
\* leaves the pending buffer empty, so that no later frame gets them again.
C3_EventsDeliveredOnce ==
  [][host'.cb = "on_draw" =>
       /\ Cardinality(IndicesOf(calls', "begin_frame")) = 1
       /\ calls'[1].op = "begin_frame"
       /\ calls'[1].input.events = raw_input.events
       /\ raw_input'.events = << >>
    ]_vars

\* a redraw delivered a pointer move and the text typed after it
C3_Witness ==
  /\ host.cb = "on_draw"
  /\ Len(calls[1].input.events) = 2
  /\ calls[1].input.events[1].type = "PointerMoved"
  /\ calls[1].input.events[2].type = "Text"
  /\ raw_input.events = << >>

\* the position of the most recent pointer move, (0, 0) before the first
LastMove == IF seen.move = None THEN << 0, 0 >> ELSE seen.move[1]

\* the state of the most recent modifiers change, nothing held before the first
LastModifiers == IF seen.modifiers = None THEN ModifiersDefault ELSE seen.modifiers[1]

\* C4: a mouse button callback for the left, right or middle button appends
\* exactly one pointer-button event: button primary, secondary or middle,
\* pressed on down and not on up, at the position of the most recent pointer
\* move ((0, 0) if none), with the modifiers of the most recent modifiers
\* change; for any other button the pending events do not change.
C4_PointerButtonEvent ==
  [][host'.cb \in {"on_mouse_button_down", "on_mouse_button_up"} =>
       LET button == host'.args[1]
           pressed == (host'.cb = "on_mouse_button_down")
           stamped(b) ==
             [type |-> "PointerButton",
              pos |-> [x |-> LastMove[1], y |-> LastMove[2]],
              button |-> b, pressed |-> pressed,
              modifiers |-> modifiers_from_speedy2d(LastModifiers)]
       IN raw_input'.events =
            (IF button = "Left" THEN Append(raw_input.events, stamped("Primary"))
             ELSE IF button = "Right" THEN Append(raw_input.events, stamped("Secondary"))
             ELSE IF button = "Middle" THEN Append(raw_input.events, stamped("Middle"))
             ELSE raw_input.events)
    ]_vars

\* the right button is released at (7, 2) with ctrl held
C4_Witness ==
  /\ host = [cb |-> "on_mouse_button_up", args |-> << "Right" >>]
  /\ seen.move = Some(<< 7, 2 >>)
  /\ seen.modifiers = Some(CtrlOnly)
  /\ Len(raw_input.events) = 1
  /\ raw_input.events[1].type = "PointerButton"
  /\ raw_input.events[1].button = "Secondary"
  /\ ~raw_input.events[1].pressed
  /\ raw_input.events[1].pos = [x |-> 7, y |-> 2]
  /\ raw_input.events[1].modifiers.ctrl

\* the signed area of the triangle of three vertices, as an integer:
\* (x1 - x0) * (y2 - y0) - (y1 - y0) * (x2 - x0)
ExactCross(v) ==
  (v[2].pos.x.v - v[1].pos.x.v) * (v[3].pos.y.v - v[1].pos.y.v)
    - (v[2].pos.y.v - v[1].pos.y.v) * (v[3].pos.x.v - v[1].pos.x.v)

\* a draw call passes the three vertices o in this order
EmitsInOrder(t, o) ==
  /\ t.p = [i \in 1..3 |-> << o[i].pos.x, o[i].pos.y >>]
  /\ t.colors = [i \in 1..3 |-> << o[i].color.r, o[i].color.g, o[i].color.b, o[i].color.a >>]
  /\ t.uvs = [i \in 1..3 |-> << o[i].uv.x, o[i].uv.y >>]

\* the f32 cross product of a degenerate triangle is -0.0: the first product
\* is a negative zero and the second a positive zero
NegativeZeroCross(v) ==
  LET a == v[2].pos.x.v - v[1].pos.x.v
      b == v[3].pos.y.v - v[1].pos.y.v
      c == v[2].pos.y.v - v[1].pos.y.v
      d == v[3].pos.x.v - v[1].pos.x.v
  IN /\ a * b = 0
     /\ c * d = 0
     /\ (a < 0) # (b < 0)
     /\ (c < 0) = (d < 0)

\* C5 as stated: with cross product >= 0 the triangle is emitted with its
\* second and third vertices swapped in positions, colours and UVs and the
\* emitted triangle is clockwise (cross product < 0); with cross product < 0
\* it is emitted unchanged.
C5_EmittedClockwise ==
  w_out # None =>
    LET v == w_tri[1]
        t == w_out[1]
    IN /\ ExactCross(v) >= 0 =>
            /\ EmitsInOrder(t, << v[1], v[3], v[2] >>)
            /\ ExactCross(VerticesOfCall(t)) < 0
       /\ ExactCross(v) < 0 => EmitsInOrder(t, v)

\* C5: with cross product > 0 the triangle is emitted with its second and
\* third vertices swapped in positions, colours and UVs and the emitted
\* triangle is clockwise; with cross product < 0 it is emitted unchanged;
\* with cross product 0 it is emitted unchanged when the f32 cross product
\* is -0.0 and swapped (in all three triples) when it is +0.0, and the
\* emitted triangle has no area, so it is not clockwise.
C5_EmittedClockwiseUnlessDegenerate ==
  w_out # None =>
    LET v == w_tri[1]
        t == w_out[1]
    IN /\ ExactCross(v) > 0 =>
            /\ EmitsInOrder(t, << v[1], v[3], v[2] >>)
            /\ ExactCross(VerticesOfCall(t)) < 0
       /\ ExactCross(v) < 0 => EmitsInOrder(t, v)
       /\ ExactCross(v) = 0 =>
            /\ ExactCross(VerticesOfCall(t)) = 0
            /\ IF NegativeZeroCross(v)
                 THEN EmitsInOrder(t, v)
                 ELSE EmitsInOrder(t, << v[1], v[3], v[2] >>)

\* a counter-clockwise triangle was emitted with its vertices swapped
C5_Witness ==
  /\ w_out # None
  /\ ExactCross(w_tri[1]) > 0
  /\ EmitsInOrder(w_out[1], << w_tri[1][1], w_tri[1][3], w_tri[1][2] >>)
  /\ ExactCross(VerticesOfCall(w_out[1])) < 0

\* C6 as stated: correcting the emitted triangle again changes nothing, for
\* every triangle.
C6_CorrectionIdempotent ==
  w_again # None => w_again[1] = w_out[1]

\* C6: correcting the emitted triangle again changes nothing, for every
\* triangle with a nonzero cross product.
C6_CorrectionIdempotentUnlessDegenerate ==
  (w_again # None /\ ExactCross(w_tri[1]) # 0) => w_again[1] = w_out[1]

\* a swapped triangle, corrected again, stays as emitted
C6_Witness ==
  /\ w_again # None
  /\ ExactCross(w_tri[1]) > 0
  /\ EmitsInOrder(w_out[1], << w_tri[1][1], w_tri[1][3], w_tri[1][2] >>)
  /\ w_again[1] = w_out[1]

\* the rectangle a window of size (w, h) covers
WindowRect(size) ==
  [min |-> [x |-> 0, y |-> 0], max |-> [x |-> size[1], y |-> size[2]]]

\* C7: after a resize callback with size (w, h) the stored screen rectangle
\* is [(0, 0), (w, h)], and the begin-frame input of the next redraw carries
\* the rectangle of the most recent resize, whatever input callbacks came
\* between the resize and the redraw.
C7_ResizeSetsScreenRect ==
  [][/\ host'.cb = "on_resize" =>
          raw_input'.screen_rect = Some(WindowRect(host'.args[1]))
     /\ (host'.cb = "on_draw" /\ seen.resize # None) =>
          calls'[1].input.screen_rect = Some(WindowRect(seen.resize[1]))
    ]_vars

\* a redraw got the second of two sizes, with an event pushed after it
C7_Witness ==
  /\ host.cb = "on_draw"
  /\ calls[1].input.screen_rect = Some(WindowRect(<< 800, 600 >>))
  /\ calls[1].input.events # << >>
  /\ raw_input.screen_rect = None

\* C8: a scale-factor callback sets the UI context's pixels-per-point to the
\* new factor first and forwards to the application after, buffers nothing
\* in the pending input, and later tessellation uses the last factor set.
C8_ScaleFactorSetAtOnce ==
  [][/\ host'.cb = "on_scale_factor_changed" =>
          /\ Len(calls') = 2
          /\ calls'[1] = [op |-> "set_pixels_per_point",
                          pixels_per_point |-> host'.args[1]]
          /\ calls'[2].op = "handler"
          /\ calls'[2].cb = "on_scale_factor_changed"
          /\ egui_ctx'.pixels_per_point = host'.args[1]
          /\ raw_input' = raw_input
     /\ (host'.cb = "on_draw" /\ seen.scale # None) =>
          /\ IndicesOf(calls', "tessellate") # {}
          /\ \A i \in IndicesOf(calls', "tessellate") :
               calls'[i].pixels_per_point = seen.scale[1]
    ]_vars

\* a redraw tessellated with the second of two scale factors
C8_Witness ==
  /\ host.cb = "on_draw"
  /\ seen.scale = Some(3)
  /\ egui_ctx.pixels_per_point = 3
  /\ \E i \in IndicesOf(calls, "tessellate") : calls[i].pixels_per_point = 3

\* C9: the key mapping gives every host key code, and the absent one, either
\* no key or one key of the UI library; a key callback whose code maps to a
\* key appends exactly one key event with that key, pressed on down and not
\* on up, not a repeat, with the modifiers of the most recent modifiers
\* change; a callback whose code is unmapped or absent appends nothing and
\* does not fail.
C9_KeyMapping ==
  /\ \A k \in OptionVirtualKeyCode :
       \/ key_from_speedy2d(k) = None
       \/ \E key \in EguiKey : key_from_speedy2d(k) = Some(key)
  /\ [][host'.cb \in {"on_key_down", "on_key_up"} =>
          LET key == key_from_speedy2d(host'.args[1])
          IN /\ ~panicked'
             /\ raw_input'.events =
                  (IF key = None THEN raw_input.events
                   ELSE Append(raw_input.events,
                          [type |-> "Key", key |-> key[1],
                           pressed |-> (host'.cb = "on_key_down"),
                           repeat |-> FALSE,
                           modifiers |-> modifiers_from_speedy2d(LastModifiers),
                           physical_key |-> None]))
       ]_vars

\* Return is released with ctrl held and its event is waiting
C9_Witness ==
  /\ host.cb = "on_key_up"
  /\ host.args[1] = Some("Return")
  /\ seen.modifiers = Some(CtrlOnly)
  /\ Len(raw_input.events) = 1
  /\ raw_input.events[1].type = "Key"
  /\ raw_input.events[1].key = "Enter"
  /\ ~raw_input.events[1].pressed
  /\ raw_input.events[1].modifiers.ctrl

\* the callbacks of the host other than the redraw
InputCallbacks ==
  {"on_start", "on_user_event", "on_resize", "on_mouse_grab_status_changed",
   "on_fullscreen_status_changed", "on_scale_factor_changed", "on_mouse_move",
   "on_mouse_button_down", "on_mouse_button_up", "on_mouse_wheel_scroll",
   "on_key_down", "on_key_up", "on_keyboard_char",
   "on_keyboard_modifiers_changed"}

\* C10: an input callback leaves the pending events as they were or appends
\* one event at the end; it never removes, reorders or alters one that is
\* waiting; the character callback always appends exactly one text event
\* with the character.
C10_EventsOnlyAppended ==
  [][/\ host'.cb \in InputCallbacks =>
          \/ raw_input'.events = raw_input.events
          \/ /\ Len(raw_input'.events) = Len(raw_input.events) + 1
             /\ SubSeq(raw_input'.events, 1, Len(raw_input.events)) = raw_input.events
     /\ host'.cb = "on_keyboard_char" =>
          raw_input'.events =
            Append(raw_input.events, [type |-> "Text", text |-> << host'.args[1] >>])
    ]_vars

\* a character is typed while a key event waits, and both wait in order
C10_Witness ==
  /\ host.cb = "on_keyboard_char"
  /\ Len(raw_input.events) = 2
  /\ raw_input.events[1].type = "Key"
  /\ raw_input.events[2] = [type |-> "Text", text |-> << "a" >>]

\* every state of the host's modifier keys
ModifiersState ==
  [ctrl : BOOLEAN, alt : BOOLEAN, shift : BOOLEAN, logo : BOOLEAN]

\* alt, ctrl and shift one to one, command = ctrl, no Mac command
MappedModifiers(m) ==
  [alt |-> m.alt, ctrl |-> m.ctrl, shift |-> m.shift,
   mac_cmd |-> FALSE, command |-> m.ctrl]

\* C11: the modifiers mapping copies alt, ctrl and shift, sets command to
\* ctrl and the Mac command flag to false, for every state of the modifier
\* keys; a key or pointer-button event, when it is queued, carries the
\* mapping of the state of the most recent modifiers-changed callback (of no
\* modifiers if there was none), whatever redraws and other callbacks came
\* since that callback.
C11_ModifiersSnapshot ==
  /\ \A m \in ModifiersState : modifiers_from_speedy2d(m) = MappedModifiers(m)
  /\ [][(/\ host'.cb \in {"on_key_down", "on_key_up",
                          "on_mouse_button_down", "on_mouse_button_up"}
         /\ Len(raw_input'.events) = Len(raw_input.events) + 1) =>
          LET ev == raw_input'.events[Len(raw_input'.events)]
          IN /\ ev.type \in {"Key", "PointerButton"}
             /\ ev.modifiers = MappedModifiers(LastModifiers)
       ]_vars

\* a button event queued with ctrl held, after a redraw took the pointer move
C11_Witness ==
  /\ host.cb = "on_mouse_button_down"
  /\ seen.move # None
  /\ seen.modifiers = Some(CtrlOnly)
  /\ Len(raw_input.events) = 1
  /\ raw_input.events[1].type = "PointerButton"
  /\ raw_input.events[1].modifiers =
       [alt |-> FALSE, ctrl |-> TRUE, shift |-> FALSE,
        mac_cmd |-> FALSE, command |-> TRUE]

\* the calls a redraw makes on the graphics object
GraphicsOps == {"create_image", "set_clip", "draw_triangle"}

\* C12: a redraw begins exactly one UI frame, with the input it took, then
\* invokes the application's draw callback exactly once, then ends the
\* frame; every texture upload, clip change and triangle draw of the redraw
\* comes after the frame is ended.
C12_HandlerInsideFrame ==
  [][host'.cb = "on_draw" =>
       /\ IndicesOf(calls', "begin_frame") = {1}
       /\ calls'[1].input = raw_input
       /\ IndicesOf(calls', "handler") = {2}
       /\ calls'[2].cb = "on_draw"
       /\ IndicesOf(calls', "end_frame") = {3}
       /\ \A i \in DOMAIN calls' : calls'[i].op \in GraphicsOps => i > 3
    ]_vars

\* a redraw took a waiting event, uploaded a texture and drew with it
C12_Witness ==
  /\ host.cb = "on_draw"
  /\ ~panicked
  /\ calls[1].input.events # << >>
  /\ IndicesOf(calls, "create_image") # {}
  /\ IndicesOf(calls, "draw_triangle") # {}

\* the set entries, the free entries and the mesh batches of a UI output
\* whose texture id is library-managed
ManagedSets(output) ==
  SelectSeq(output.textures_delta.set, LAMBDA e : e.id.kind = "Managed")

ManagedFrees(ids) == SelectSeq(ids, LAMBDA t : t.kind = "Managed")

ManagedMeshes(output) ==
  SelectSeq(output.shapes,
            LAMBDA b : b.primitive.kind = "Mesh"
                       /\ b.primitive.texture_id.kind = "Managed")

\* the complete 3-index groups of a sequence of mesh batches
RECURSIVE GroupsIn(_)
GroupsIn(batches) ==
  IF batches = << >> THEN 0
  ELSE (Len(Head(batches).primitive.indices) \div 3) + GroupsIn(Tail(batches))

\* C13: in every redraw, each texture created belongs to a library-managed
\* set entry and there are no more creations than such entries; each removal
\* belongs to a library-managed entry of the previous frame's free list and
\* there are no more removals than such entries; the pending-free list holds
\* just the library-managed ids of the frame's free list; each triangle drawn
\* belongs to a mesh with a library-managed texture and there are no more
\* triangles than those meshes have; and a frame whose set entries are all
\* user-managed, after a frame whose free entries were, leaves the table as
\* it was.
C13_UserTexturesIgnored ==
  [][host'.cb = "on_draw" =>
       LET out == OutputOf(calls')
       IN /\ \A i \in IndicesOf(calls', "create_image") :
               \E e \in Range(ManagedSets(out)) : e.id.id = calls'[i].id
          /\ Cardinality(IndicesOf(calls', "create_image")) <= Len(ManagedSets(out))
          /\ \A i \in IndicesOf(calls', "remove") :
               calls'[i].id \in ManagedOf(last_free)
          /\ Cardinality(IndicesOf(calls', "remove")) = Len(ManagedFrees(last_free))
          /\ Range(to_free_textures') \subseteq ManagedOf(out.textures_delta.free)
          /\ Len(to_free_textures') = Len(ManagedFrees(out.textures_delta.free))
          /\ \A i \in IndicesOf(calls', "draw_triangle") :
               \E b \in Range(ManagedMeshes(out)) :
                 b.primitive.texture_id.id = calls'[i].texture_id
          /\ Cardinality(IndicesOf(calls', "draw_triangle")) <= GroupsIn(ManagedMeshes(out))
          /\ (ManagedSets(out) = << >> /\ ManagedFrees(last_free) = << >>) =>
               id_and_textures' = id_and_textures
    ]_vars

\* a redraw whose set, free and first mesh name the user texture 0 completes
\* with the managed texture 0 in the table: nothing created, nothing drawn
C13_Witness ==
  /\ host.cb = "on_draw"
  /\ ~panicked
  /\ LET out == OutputOf(calls)
     IN /\ out.textures_delta.set # << >>
        /\ ManagedSets(out) = << >>
        /\ User(0) \in Range(out.textures_delta.free)
        /\ out.shapes # << >>
        /\ out.shapes[1].primitive.texture_id = User(0)
  /\ IndicesOf(calls, "create_image") = {}
  /\ IndicesOf(calls, "draw_triangle") = {}
  /\ 0 \in DOMAIN id_and_textures
  /\ to_free_textures = << 0 >>

\* the create calls of a log that the host failed
FailedCreates(log) ==
  { i \in IndicesOf(log, "create_image") : log[i].result = None }

\* C14: a redraw in which the host fails a texture creation ends in a panic
\* right after that call: it sets no clip rectangle and draws no triangle,
\* and no callback runs after it.
C14_CreateFailureAborts ==
  [][/\ ~panicked
     /\ (host'.cb = "on_draw" /\ FailedCreates(calls') # {}) =>
          /\ panicked'
          /\ IndicesOf(calls', "set_clip") = {}
          /\ IndicesOf(calls', "draw_triangle") = {}
          /\ FailedCreates(calls') = {Len(calls') - 1}
          /\ calls'[Len(calls')] = [op |-> "panic", why |-> "unwrap"]
    ]_vars

\* the second creation of a frame that had batches to draw failed
C14_Witness ==
  /\ host.cb = "on_draw"
  /\ panicked
  /\ FailedCreates(calls) # {}
  /\ Cardinality(IndicesOf(calls, "create_image")) = 2
  /\ OutputOf(calls).shapes # << >>

\* the places of a set list that hold a partial update of a managed texture
PartialUpdates(set) ==
  { k \in DOMAIN set : set[k].id.kind = "Managed" /\ set[k].delta.pos # None }

\* C15: a redraw whose texture delta holds a partial update of a
\* library-managed texture ends in a panic: it sets no clip rectangle and
\* draws no triangle; unless a creation failed first, the panic is the
\* todo of the first such entry, only the full entries before it were
\* created, and the entry's texture, if the list did not set it before, is
\* in the table as the removal at the start of the redraw left it.
C15_PartialUpdateAborts ==
  [][host'.cb = "on_draw" =>
       LET set == OutputOf(calls').textures_delta.set
           partial == PartialUpdates(set)
           k == CHOOSE j \in partial : \A i \in partial : j <= i
           id == set[k].id.id
           before == SubSeq(set, 1, k - 1)
           kept == DOMAIN id_and_textures \ Range(to_free_textures)
       IN partial # {} =>
            /\ panicked'
            /\ IndicesOf(calls', "set_clip") = {}
            /\ IndicesOf(calls', "draw_triangle") = {}
            /\ FailedCreates(calls') = {} =>
                 /\ calls'[Len(calls')] = [op |-> "panic", why |-> "todo"]
                 /\ Cardinality(IndicesOf(calls', "create_image"))
                      = Len(SelectSeq(before, LAMBDA e : e.id.kind = "Managed"))
                 /\ (\A j \in 1..(k - 1) : set[j].id # set[k].id) =>
                      /\ id \in DOMAIN id_and_textures' <=> id \in kept
                      /\ id \in kept => id_and_textures'[id] = id_and_textures[id]
    ]_vars

\* a partial update of texture 1, which is in the table, stopped a redraw
\* that had batches to draw
C15_Witness ==
  /\ host.cb = "on_draw"
  /\ panicked
  /\ PartialUpdates(OutputOf(calls).textures_delta.set) # {}
  /\ calls[Len(calls)] = [op |-> "panic", why |-> "todo"]
  /\ 1 \in DOMAIN id_and_textures
  /\ OutputOf(calls).shapes # << >>

\* C16: a redraw that completes has made as many texture-create calls as its
\* texture delta has full-replace set entries for library-managed ids, and
\* as many triangle-draw calls as the mesh batches with a library-managed
\* texture have complete groups of three indices.
C16_CallCounts ==
  (host.cb = "on_draw" /\ ~panicked) =>
    LET out == OutputOf(calls)
    IN /\ Cardinality(IndicesOf(calls, "create_image"))
            = Len(SelectSeq(ManagedSets(out), LAMBDA e : e.delta.pos = None))
       /\ Cardinality(IndicesOf(calls, "draw_triangle")) = GroupsIn(ManagedMeshes(out))

\* a redraw created two textures and drew the two triangles of a mesh of
\* seven indices
C16_Witness ==
  /\ host.cb = "on_draw"
  /\ ~panicked
  /\ Cardinality(IndicesOf(calls, "create_image")) = 2
  /\ Cardinality(IndicesOf(calls, "draw_triangle")) = 2
  /\ \E b \in Range(ManagedMeshes(OutputOf(calls))) : Len(b.primitive.indices) = 7

\* C17: every callback of the host calls the application handler exactly
\* once, with the callback of the same kind and the arguments the host
\* gave, whether or not the bridge queued an event for it; an input
\* callback calls the handler last, when the bridge's own fields already
\* have the values the callback leaves.
C17_ForwardedOnce ==
  [][LET h == IndicesOf(calls', "handler")
     IN /\ host'.cb \in InputCallbacks \cup {"on_draw"}
        /\ Cardinality(h) = 1
        /\ \A i \in h :
             /\ calls'[i].cb = host'.cb
             /\ calls'[i].args = host'.args
             /\ host'.cb \in InputCallbacks => i = Len(calls')
        /\ host'.cb \in InputCallbacks =>
             forwarded' = << raw_input', last_mouse_position', current_modifiers' >>
    ]_vars

\* a press of a button the bridge has no event for reached the handler
C17_Witness ==
  /\ host = [cb |-> "on_mouse_button_down", args |-> << "Other" >>]
  /\ raw_input.events = << >>
  /\ calls = << [op |-> "handler", cb |-> "on_mouse_button_down",
                 args |-> << "Other" >>] >>
  /\ seen.move # None

\* every entry of a log made by an operation of before comes earlier than
\* every entry made by an operation of after
Precedes(log, before, after) ==
  \A i, j \in DOMAIN log :
    (log[i].op \in before /\ log[j].op \in after) => i < j

\* the library-managed ids of a free list, in the order of the list
IdsToFree(free) == [i \in 1..Len(ManagedFrees(free)) |-> ManagedFrees(free)[i].id]

ClipsBefore(log, i) == Cardinality({ j \in IndicesOf(log, "set_clip") : j < i })

\* the pixel nearest to q quarters of a point
NearestPixel(q) == IF q >= 0 THEN (q + 2) \div 4 ELSE -((2 - q) \div 4)

\* the host rectangle of a clip rectangle given in quarters of a point
PixelRect(clip_rect) ==
  [top_left |-> << NearestPixel(clip_rect.min.x), NearestPixel(clip_rect.min.y) >>,
   bottom_right |-> << NearestPixel(clip_rect.max.x), NearestPixel(clip_rect.max.y) >>]

\* C19: a coordinate is converted to a pixel at most half a point away; the
\* k-th clip call of a redraw sets the rounded clip rectangle of the k-th
\* batch of the tessellation; a redraw that completes has made one clip call
\* per batch, a redraw that stopped has made them for the batches it
\* reached; and a triangle drawn after the k-th clip call and before the
\* next belongs to the k-th batch, so that a batch with a user-managed
\* texture has its clip call and no triangle.
C19_ClipPerBatch ==
  /\ \A q \in (-MaxQuarter)..MaxQuarter :
       LET r == ivec2_from_egui([x |-> q, y |-> 0])[1]
       IN 4 * r - q \in -2..2
  /\ host.cb = "on_draw" =>
       LET prims == OutputOf(calls).shapes
           clips == IndicesOf(calls, "set_clip")
       IN /\ Cardinality(clips) <= Len(prims)
          /\ ~panicked => Cardinality(clips) = Len(prims)
          /\ \A j \in clips :
               calls[j].rect = Some(PixelRect(prims[ClipsBefore(calls, j) + 1].clip_rect))
          /\ \A i \in IndicesOf(calls, "draw_triangle") :
               LET k == ClipsBefore(calls, i)
               IN /\ k >= 1
                  /\ prims[k].primitive.kind = "Mesh"
                  /\ prims[k].primitive.texture_id = Managed(calls[i].texture_id)

\* a redraw set the clip of a batch with a user texture, rounded, and the
\* clip of the batch after it, and drew nothing for the first
C19_Witness ==
  /\ host.cb = "on_draw"
  /\ ~panicked
  /\ LET prims == OutputOf(calls).shapes
         clips == IndicesOf(calls, "set_clip")
     IN /\ Len(prims) = 2
        /\ prims[1].primitive.texture_id = User(0)
        /\ Cardinality(clips) = 2
        /\ \E j \in clips :
             /\ ClipsBefore(calls, j) = 0
             /\ calls[j].rect = Some([top_left |-> << 1, 2 >>,
                                      bottom_right |-> << 11, -1 >>])
             /\ calls[j + 1].op = "set_clip"

\* the batches of a UI output that are meshes with a library-managed texture
\* that the table does not hold
MissingTexture(prims, table) ==
  { k \in DOMAIN prims :
      /\ prims[k].primitive.kind = "Mesh"
      /\ prims[k].primitive.texture_id.kind = "Managed"
      /\ prims[k].primitive.texture_id.id \notin DOMAIN table }

\* C20: every triangle is drawn with the handle the table holds for the
\* texture of its batch; a redraw with a mesh batch whose library-managed
\* texture is not in the table ends in a panic and draws no triangle of that
\* batch or of a later one; if nothing stopped the redraw before, the panic
\* comes right after the clip call of the first such batch.
C20_MissingTextureAborts ==
  host.cb = "on_draw" =>
    LET prims == OutputOf(calls).shapes
        missing == MissingTexture(prims, id_and_textures)
        k == CHOOSE j \in missing : \A i \in missing : j <= i
    IN /\ \A i \in IndicesOf(calls, "draw_triangle") :
            /\ calls[i].texture_id \in DOMAIN id_and_textures
            /\ calls[i].handle = id_and_textures[calls[i].texture_id].handle
       /\ missing # {} =>
            /\ panicked
            /\ \A i \in IndicesOf(calls, "draw_triangle") : ClipsBefore(calls, i) < k
            /\ (/\ FailedCreates(calls) = {}
                /\ PartialUpdates(OutputOf(calls).textures_delta.set) = {}
                /\ \A j \in 1..(k - 1) : prims[j].primitive.kind = "Mesh") =>
                 /\ Cardinality(IndicesOf(calls, "set_clip")) = k
                 /\ calls[Len(calls)] = [op |-> "panic", why |-> "unwrap"]
                 /\ calls[Len(calls) - 1].op = "set_clip"

\* a redraw removed texture 1, which the frame before had freed, drew a
\* batch with texture 0 and stopped at a batch with texture 1
C20_Witness ==
  /\ host.cb = "on_draw"
  /\ panicked
  /\ \E i \in IndicesOf(calls, "remove") : calls[i].id = 1 /\ calls[i].found
  /\ MissingTexture(OutputOf(calls).shapes, id_and_textures) = {2}
  /\ OutputOf(calls).shapes[2].primitive.texture_id = Managed(1)
  /\ Cardinality(IndicesOf(calls, "draw_triangle")) = 1
  /\ calls[Len(calls)] = [op |-> "panic", why |-> "unwrap"]

\* the places of a log where a texture was created for the id
CreatesOf(log, id) ==
  { j \in IndicesOf(log, "create_image") : log[j].id = id /\ log[j].result # None }

\* the handle of the last texture a log created for the id
LastCreated(log, id) ==
  log[CHOOSE j \in CreatesOf(log, id) : \A i \in CreatesOf(log, id) : i <= j].result[1]

\* C21: a redraw draws each triangle with the handle of the last texture
\* the redraw created for the triangle's texture id, or, if it created none,
\* with the handle the table held for the id before the redraw; an id the
\* frame before freed and this frame sets again in full is in the table at
\* every draw call of this frame, and, when the textures of the frame were
\* all set, in the table after it with the handle this frame created.
C21_FreeThenSetKeepsTexture ==
  [][host'.cb = "on_draw" =>
       LET out == OutputOf(calls')
           again == ManagedOf(last_free) \cap FullySetBy(out)
           draws == IndicesOf(calls', "draw_triangle")
       IN /\ \A i \in draws :
               LET id == calls'[i].texture_id
               IN IF CreatesOf(calls', id) # {}
                    THEN calls'[i].handle = LastCreated(calls', id)
                    ELSE /\ id \in DOMAIN id_and_textures
                         /\ calls'[i].handle = id_and_textures[id].handle
          /\ \A id \in again :
               /\ \A i \in draws : id \in calls'[i].table
               /\ (FailedCreates(calls') = {}
                   /\ PartialUpdates(out.textures_delta.set) = {}) =>
                    /\ id \in DOMAIN id_and_textures'
                    /\ CreatesOf(calls', id) # {}
                    /\ id_and_textures'[id].handle = LastCreated(calls', id)
    ]_vars

\* texture 0, freed by the frame before, was removed, created again and drawn
\* with the new handle
C21_Witness ==
  /\ host.cb = "on_draw"
  /\ ~panicked
  /\ 0 \in ManagedOf(prev_free)
  /\ \E i \in IndicesOf(calls, "remove") : calls[i].id = 0 /\ calls[i].found
  /\ CreatesOf(calls, 0) # {}
  /\ \E i \in IndicesOf(calls, "draw_triangle") :
       /\ calls[i].texture_id = 0
       /\ calls[i].handle = LastCreated(calls, 0)
       /\ calls[i].handle = id_and_textures[0].handle

\* the ids a log removed from the table, in the order of the removals
RemovedBy(log) ==
  LET r == SelectSeq(log, LAMBDA c : c.op = "remove")
  IN [i \in 1..Len(r) |-> r[i].id]

\* C22: the pending-free list is empty after construction and, after every
\* redraw, holds the library-managed ids of that frame's free set and
\* nothing else; a redraw makes one removal for each id of the list it
\* finds, in order; a removal finds an entry just when the table has one,
\* and the redraw goes on to tessellate in either case; after the redraw an
\* id of the list is in the table only if the redraw created it again.
C22_PendingFreeExact ==
  /\ host.cb = "new" => to_free_textures = << >>
  /\ [][host'.cb = "on_draw" =>
          /\ to_free_textures' = IdsToFree(OutputOf(calls').textures_delta.free)
          /\ RemovedBy(calls') = to_free_textures
          /\ \A i \in IndicesOf(calls', "remove") :
               calls'[i].found =
                 (/\ calls'[i].id \in DOMAIN id_and_textures
                  /\ \A j \in IndicesOf(calls', "remove") :
                       j < i => calls'[j].id # calls'[i].id)
          /\ IndicesOf(calls', "tessellate") # {}
          /\ \A id \in Range(to_free_textures) :
               id \in DOMAIN id_and_textures' => CreatesOf(calls', id) # {}
       ]_vars

\* the frame before freed texture 0, which was not in the table; this frame
\* frees texture 1, and the list holds texture 1 alone
C22_Witness ==
  /\ host.cb = "on_draw"
  /\ ~panicked
  /\ prev_free = << Managed(0) >>
  /\ \E i \in IndicesOf(calls, "remove") : calls[i].id = 0 /\ ~calls[i].found
  /\ last_free = << Managed(1) >>
  /\ to_free_textures = << 1 >>

\* the callbacks whose whole body is the call of the handler
ForwardOnlyCallbacks ==
  {"on_start", "on_user_event", "on_mouse_grab_status_changed",
   "on_fullscreen_status_changed", "on_mouse_wheel_scroll"}

\* C23: the start, user-event, mouse-grab-status, fullscreen-status and
\* mouse-wheel-scroll callbacks leave the pending events, the stored screen
\* rectangle, the scale, the last mouse position, the modifier snapshot, the
\* texture table and the pending-free list as they were and do not fail;
\* no input callback changes the texture table or the pending-free list,
\* so any step that changes either of them is a redraw.
C23_ForwardOnlyChangesNothing ==
  [][/\ host'.cb \in ForwardOnlyCallbacks =>
          /\ raw_input' = raw_input
          /\ last_mouse_position' = last_mouse_position
          /\ current_modifiers' = current_modifiers
          /\ id_and_textures' = id_and_textures
          /\ to_free_textures' = to_free_textures
          /\ panicked' = panicked
     /\ host'.cb \in InputCallbacks =>
          /\ id_and_textures' = id_and_textures
          /\ to_free_textures' = to_free_textures
     /\ (\/ id_and_textures' # id_and_textures
         \/ to_free_textures' # to_free_textures) => host'.cb = "on_draw"
    ]_vars

\* a mouse-wheel callback returns while an event is pending, a rectangle is
\* stored, the mouse has moved, a modifier is held, the table has a texture
\* and the pending-free list an id
C23_Witness ==
  /\ host.cb = "on_mouse_wheel_scroll"
  /\ raw_input.events # << >>
  /\ raw_input.screen_rect # None
  /\ last_mouse_position = << 3, 4 >>
  /\ current_modifiers = CtrlOnly
  /\ DOMAIN id_and_textures # {}
  /\ to_free_textures # << >>

====
